---- MODULE Spec2Model ----
\* A model of the go-mpris client binding: typed property getters and
\* setters, control methods, player discovery and the Seeked signal loop,
\* each translated from the Go source, running against a remote MPRIS player
\* reached over a D-Bus connection.
EXTENDS Integers, Sequences, FiniteSets, TLC

\* ------------------------------------------------------------------
\* Bounds of the model
\* ------------------------------------------------------------------

\* int64 / time.Duration are modelled as two's complement integers of this
\* many bits (the arithmetic is the code's, the width is scaled down).
DurationBits == 16

\* Longest reply of the bus-wide name listing.
MaxNames == 2

\* Number of signal events the bus may deliver to the connection.
MaxSignals == 3

\* ------------------------------------------------------------------
\* Constants of the program
\* ------------------------------------------------------------------

dbusObjectPath == "/org/mpris/MediaPlayer2"

BaseInterface == "org.mpris.MediaPlayer2"

PlayerInterface == "org.mpris.MediaPlayer2.Player"

getPropertyMethod == "org.freedesktop.DBus.Properties.Get"

setPropertyMethod == "org.freedesktop.DBus.Properties.Set"

ListNamesMethod == "org.freedesktop.DBus.ListNames"

\* time.Microsecond, in nanoseconds (the unit of time.Duration).
Microsecond == 1000

\* Capacity of the signal channel made by OnSeeked.
SigChanCap == 10

PlaybackPlaying == "Playing"

PlaybackPaused == "Paused"

PlaybackStopped == "Stopped"

LoopNone == "None"

LoopTrack == "Track"

LoopPlaylist == "Playlist"

\* ------------------------------------------------------------------
\* Values carried by a dbus.Variant (Go's `any`)
\* ------------------------------------------------------------------

Nil == [t |-> "nil", v |-> "nil"]

StringV(s) == [t |-> "string", v |-> s]

Int64V(n) == [t |-> "int64", v |-> n]

BoolV(b) == [t |-> "bool", v |-> b]

\* A float64; v counts halves, so Float64V(1) is 0.5 and Float64V(2) is 1.0.
Float64V(h) == [t |-> "float64", v |-> h]

\* A dbus.ObjectPath (a named string type).
ObjectPathV(s) == [t |-> "ObjectPath", v |-> s]

\* A map[string]dbus.Variant; v maps every key of MetaKeys to its variant's
\* value, or to Absent when the map has no such key.
MapV(m) == [t |-> "map", v |-> m]

Absent == [t |-> "absent", v |-> "absent"]

\* A time.Duration, in nanoseconds.
DurationV(ns) == [t |-> "Duration", v |-> ns]

\* A []string.
StringsV(ss) == [t |-> "[]string", v |-> ss]

\* ------------------------------------------------------------------
\* Integer arithmetic of the code
\* ------------------------------------------------------------------

Pow2(n) == 2 ^ n

MinInt64 == 0 - Pow2(DurationBits - 1)

MaxInt64 == Pow2(DurationBits - 1) - 1

\* Two's complement wrap-around of a mathematical integer into int64.
WrapInt64(x) == ((x - MinInt64) % Pow2(DurationBits)) + MinInt64

\* Go's integer division truncates toward zero.
GoDiv(a, b) == IF a >= 0 THEN a \div b ELSE 0 - ((0 - a) \div b)

\* time.Duration(micro) * time.Microsecond
DurationOfMicro(micro) == WrapInt64(micro * Microsecond)

\* The microsecond count just above what a time.Duration can hold.
FirstOverflow == (MaxInt64 \div Microsecond) + 1

\* The conversion rounding toward negative infinity.
Microseconds_Floor(d) == d \div Microsecond

\* time.Duration.Microseconds()
Microseconds(d) == GoDiv(d, Microsecond)

\* ------------------------------------------------------------------
\* Strings: the characters of the bus names the model uses
\* ------------------------------------------------------------------

VlcName == "org.mpris.MediaPlayer2.vlc"

MpvName == "org.mpris.MediaPlayer2.mpv"

OtherName == "org.other.Thing"

ShortName == "org.mpris"

Chars ==
    "org.mpris.MediaPlayer2" :> <<"o", "r", "g", ".", "m", "p", "r", "i", "s", ".", "M", "e", "d", "i", "a", "P", "l", "a", "y", "e", "r", "2">> @@
    "org.mpris.MediaPlayer2.vlc" :> <<"o", "r", "g", ".", "m", "p", "r", "i", "s", ".", "M", "e", "d", "i", "a", "P", "l", "a", "y", "e", "r", "2", ".", "v", "l", "c">> @@
    "org.mpris.MediaPlayer2.mpv" :> <<"o", "r", "g", ".", "m", "p", "r", "i", "s", ".", "M", "e", "d", "i", "a", "P", "l", "a", "y", "e", "r", "2", ".", "m", "p", "v">> @@
    "org.other.Thing" :> <<"o", "r", "g", ".", "o", "t", "h", "e", "r", ".", "T", "h", "i", "n", "g">> @@
    "org.mpris" :> <<"o", "r", "g", ".", "m", "p", "r", "i", "s">>

\* A prefix test that looks at the first four characters only.
HasPrefix_FirstFour(s, prefix) ==
    /\ Len(Chars[s]) >= 4
    /\ SubSeq(Chars[s], 1, 4) = SubSeq(Chars[prefix], 1, 4)

\* strings.HasPrefix(s, prefix)
HasPrefix(s, prefix) ==
    LET a == Chars[s]
        b == Chars[prefix]
    IN  /\ Len(a) >= Len(b)
        /\ SubSeq(a, 1, Len(b)) = b

\* ------------------------------------------------------------------
\* github.com/spf13/cast, on the values above
\* ------------------------------------------------------------------

NoErr == "nil"

CastOk(val) == [val |-> val, err |-> NoErr]

CastFail(zero) == [val |-> zero, err |-> "cast"]

\* Decimal strings strconv.ParseInt accepts, within the int64 of the model.
IntStrings == {ToString(n) : n \in MinInt64..MaxInt64}

IsIntString(s) == s \in IntStrings

ParseInt(s) == CHOOSE n \in MinInt64..MaxInt64 : ToString(n) = s

\* strconv.FormatFloat(f, 'f', -1, 64) of a number of halves.
FormatFloat(h) ==
    IF h % 2 = 0 THEN ToString(GoDiv(h, 2))
    ELSE (IF h < 0 THEN "-" ELSE "") \o
         ToString(GoDiv(IF h < 0 THEN 0 - h ELSE h, 2)) \o ".5"

\* cast.ToStringE
ToStringE(a) ==
    CASE a.t = "string" -> CastOk(a)
      [] a.t = "int64" -> CastOk(StringV(ToString(a.v)))
      [] a.t = "float64" -> CastOk(StringV(FormatFloat(a.v)))
      [] a.t = "bool" -> CastOk(StringV(IF a.v THEN "true" ELSE "false"))
      [] a.t = "nil" -> CastOk(StringV(""))
      [] a.t = "ObjectPath" -> CastOk(StringV(a.v))
      [] OTHER -> CastFail(StringV(""))

\* cast.ToInt64E
ToInt64E(a) ==
    CASE a.t = "int64" -> CastOk(a)
      [] a.t = "float64" -> CastOk(Int64V(GoDiv(a.v, 2)))
      [] a.t = "string" ->
            IF IsIntString(a.v) THEN CastOk(Int64V(ParseInt(a.v)))
            ELSE CastFail(Int64V(0))
      [] a.t = "bool" -> CastOk(Int64V(IF a.v THEN 1 ELSE 0))
      [] a.t = "nil" -> CastOk(Int64V(0))
      [] OTHER -> CastFail(Int64V(0))

\* cast.ToFloat64E
ToFloat64E(a) ==
    CASE a.t = "float64" -> CastOk(a)
      [] a.t = "int64" -> CastOk(Float64V(2 * a.v))
      [] a.t = "string" ->
            IF IsIntString(a.v) THEN CastOk(Float64V(2 * ParseInt(a.v)))
            ELSE CastFail(Float64V(0))
      [] a.t = "bool" -> CastOk(Float64V(IF a.v THEN 2 ELSE 0))
      [] a.t = "nil" -> CastOk(Float64V(0))
      [] OTHER -> CastFail(Float64V(0))

\* cast.ToBoolE
ToBoolE(a) ==
    CASE a.t = "bool" -> CastOk(a)
      [] a.t = "nil" -> CastOk(BoolV(FALSE))
      [] a.t = "int64" -> CastOk(BoolV(a.v # 0))
      [] a.t = "float64" -> CastOk(BoolV(a.v # 0))
      [] a.t = "string" ->
            IF a.v \in {"1", "t", "T", "true", "TRUE", "True"} THEN CastOk(BoolV(TRUE))
            ELSE IF a.v \in {"0", "f", "F", "false", "FALSE", "False"} THEN CastOk(BoolV(FALSE))
            ELSE CastFail(BoolV(FALSE))
      [] OTHER -> CastFail(BoolV(FALSE))

\* strings.Fields, on the strings of the model, which hold no white space.
Fields(s) == IF s = "" THEN <<>> ELSE <<s>>

\* cast.ToStringSliceE
ToStringSliceE(a) ==
    CASE a.t = "[]string" -> CastOk(a)
      [] a.t = "string" -> CastOk(StringsV(Fields(a.v)))
      [] a.t = "nil" -> CastFail(StringsV(<<>>))
      [] OTHER ->
            IF ToStringE(a).err = NoErr THEN CastOk(StringsV(<<ToStringE(a).val.v>>))
            ELSE CastFail(StringsV(<<>>))

\* ------------------------------------------------------------------
\* The remote side: replies to one remote call
\* ------------------------------------------------------------------

\* call.Err != nil: the call could not complete.
Fail == [k |-> "fail", v |-> Nil]

\* The call completed and its body cannot be stored into the container.
Undecodable == [k |-> "bad", v |-> Nil]

\* The call completed; v is what the returned container holds.
Ok(v) == [k |-> "ok", v |-> v]

\* One remote call as it leaves the client.
Call(obj, method, args) ==
    [dest |-> obj.dest, path |-> obj.path, method |-> method, args |-> args]

\* What an operation hands back: its value, its error and the calls it issued.
Result(val, err, issued) == [val |-> val, err |-> err, calls |-> issued]

\* ------------------------------------------------------------------
\* Player and property access
\* ------------------------------------------------------------------

\* New binding the remote object to the bus daemon instead of the player.
New_BusDaemon(conn, name) ==
    [conn |-> conn,
     obj |-> [dest |-> "org.freedesktop.DBus", path |-> "/org/freedesktop/DBus"],
     name |-> name]

\* New(conn, name)
New(conn, name) ==
    [conn |-> conn, obj |-> [dest |-> name, path |-> dbusObjectPath], name |-> name]

\* GetName reading the connection instead of the name.
GetName_Conn(i) == i.conn

\* Player.GetName
GetName(i) == i.name

\* The error of obj.Call(...).Err for a call whose body is not read.
CallErr(reply) == IF reply.k = "fail" THEN "TransportError" ELSE NoErr

\* The setter that reads the property back after it set it.
SetProperty_ReadBack(i, iface, property, value, reply) ==
    Result(Nil, CallErr(reply),
           <<Call(i.obj, setPropertyMethod, <<StringV(iface), StringV(property), value>>),
             Call(i.obj, getPropertyMethod, <<StringV(iface), StringV(property)>>)>>)

\* Player.SetProperty; dbus.MakeVariant wraps the value unchanged.
SetProperty(i, iface, property, value, reply) ==
    Result(Nil, CallErr(reply),
           <<Call(i.obj, setPropertyMethod, <<StringV(iface), StringV(property), value>>)>>)

\* Player.SetBaseProperty
SetBaseProperty(i, property, value, reply) ==
    SetProperty(i, BaseInterface, property, value, reply)

\* The setter addressing the base interface instead of the player interface.
SetPlayerProperty_BaseInterface(i, property, value, reply) ==
    SetProperty(i, BaseInterface, property, value, reply)

\* Player.SetPlayerProperty
SetPlayerProperty(i, property, value, reply) ==
    SetProperty(i, PlayerInterface, property, value, reply)

\* The property-get that asks a second time when the call fails.
GetProperty_Retry(i, iface, property, reply) ==
    LET issued == <<Call(i.obj, getPropertyMethod, <<StringV(iface), StringV(property)>>)>>
    IN  IF reply.k = "fail" THEN Result(Nil, "TransportError", issued \o issued)
        ELSE IF reply.k = "bad" THEN Result(Nil, "DecodeError", issued)
        ELSE Result(reply.v, NoErr, issued)

\* Player.GetProperty
GetProperty(i, iface, property, reply) ==
    LET issued == <<Call(i.obj, getPropertyMethod, <<StringV(iface), StringV(property)>>)>>
    IN  IF reply.k = "fail" THEN Result(Nil, "TransportError", issued)
        ELSE IF reply.k = "bad" THEN Result(Nil, "DecodeError", issued)
        ELSE Result(reply.v, NoErr, issued)

\* Player.GetBaseProperty
GetBaseProperty(i, property, reply) == GetProperty(i, BaseInterface, property, reply)

\* Player.GetPlayerProperty
GetPlayerProperty(i, property, reply) == GetProperty(i, PlayerInterface, property, reply)

MetaKeys ==
    {"mpris:trackid", "mpris:length", "mpris:artUrl", "xesam:title", "xesam:artist",
     "xesam:album", "xesam:url"}

\* Metadata{}: the empty mapping.
EmptyMetadata == [k \in MetaKeys |-> Absent]

\* The caster of GetMetadata: a.(map[string]dbus.Variant)
ToMetadataE(a) ==
    IF a.t = "map" THEN CastOk(a) ELSE CastFail(MapV(EmptyMetadata))

\* The caster handed to getPropertyCast and getMetadataCast, by its name.
Caster(caster, a) ==
    CASE caster = "ToStringE" -> ToStringE(a)
      [] caster = "ToFloat64E" -> ToFloat64E(a)
      [] caster = "ToBoolE" -> ToBoolE(a)
      [] caster = "ToMetadataE" -> ToMetadataE(a)
      [] caster = "ToInt64E" -> ToInt64E(a)
      [] caster = "ToStringSliceE" -> ToStringSliceE(a)

\* The cast applied without the test for a nil value.
getPropertyCast_NoNilTest(i, iface, property, caster, zero, reply) ==
    LET variant == GetProperty(i, iface, property, reply)
    IN  IF variant.err # NoErr THEN Result(zero, variant.err, variant.calls)
        ELSE LET result == Caster(caster, variant.val)
             IN  IF result.err # NoErr THEN Result(zero, "CastError", variant.calls)
                 ELSE Result(result.val, NoErr, variant.calls)

\* getPropertyCast; zero is the zero value of the target type T.
getPropertyCast(i, iface, property, caster, zero, reply) ==
    LET variant == GetProperty(i, iface, property, reply)
    IN  IF variant.err # NoErr THEN Result(zero, variant.err, variant.calls)
        ELSE IF variant.val = Nil THEN Result(zero, "NilValueError", variant.calls)
        ELSE LET result == Caster(caster, variant.val)
             IN  IF result.err # NoErr THEN Result(zero, "CastError", variant.calls)
                 ELSE Result(result.val, NoErr, variant.calls)

\* getBasePropertyCast
getBasePropertyCast(i, property, caster, zero, reply) ==
    getPropertyCast(i, BaseInterface, property, caster, zero, reply)

\* getPlayerPropertyCast
getPlayerPropertyCast(i, property, caster, zero, reply) ==
    getPropertyCast(i, PlayerInterface, property, caster, zero, reply)

\* ------------------------------------------------------------------
\* Typed getters and setters
\* ------------------------------------------------------------------

\* The getter returning the zero value in place of the cast result.
GetPlaybackStatus_Zero(i, reply) ==
    LET r == getPlayerPropertyCast(i, "PlaybackStatus", "ToStringE", StringV(""), reply)
    IN  Result(StringV(""), r.err, r.calls)

\* Player.GetPlaybackStatus
GetPlaybackStatus(i, reply) ==
    getPlayerPropertyCast(i, "PlaybackStatus", "ToStringE", StringV(""), reply)

\* The getter returning the zero value in place of the cast result.
GetLoopStatus_Zero(i, reply) ==
    LET r == getPlayerPropertyCast(i, "LoopStatus", "ToStringE", StringV(""), reply)
    IN  Result(StringV(""), r.err, r.calls)

\* Player.GetLoopStatus
GetLoopStatus(i, reply) ==
    getPlayerPropertyCast(i, "LoopStatus", "ToStringE", StringV(""), reply)

\* Player.SetLoopStatus
SetLoopStatus(i, loopStatus, reply) ==
    SetPlayerProperty(i, "LoopStatus", loopStatus, reply)

\* Player.SetRate
SetRate(i, rate, reply) == SetPlayerProperty(i, "Rate", rate, reply)

\* Player.SetShuffle
SetShuffle(i, value, reply) == SetPlayerProperty(i, "Shuffle", value, reply)

\* Player.GetPosition
GetPosition(i, reply) ==
    [getPlayerPropertyCast(i, "Position", "ToInt64E", Int64V(0), reply)
        EXCEPT !.val = DurationV(DurationOfMicro(@.v))]

\* Player.GetVolume
GetVolume(i, reply) ==
    getPlayerPropertyCast(i, "Volume", "ToFloat64E", Float64V(0), reply)

\* Player.SetVolume
SetVolume(i, volume, reply) == SetPlayerProperty(i, "Volume", volume, reply)

\* Player.GetFullscreen
GetFullscreen(i, reply) ==
    getBasePropertyCast(i, "Fullscreen", "ToBoolE", BoolV(FALSE), reply)

\* Player.SetFullscreen
SetFullscreen(i, fullscreen, reply) ==
    SetBaseProperty(i, "Fullscreen", fullscreen, reply)

\* Player.GetIdentity, on getBasePropertyCast
GetIdentity(i, reply) ==
    getBasePropertyCast(i, "Identity", "ToStringE", StringV(""), reply)

\* Player.GetIdentity, the variant that casts the raw property itself
GetIdentity_part_001(i, reply) ==
    LET value == GetBaseProperty(i, "Identity", reply)
    IN  IF value.err # NoErr THEN Result(StringV(""), value.err, value.calls)
        ELSE LET str == ToStringE(value.val)
             IN  Result(str.val, IF str.err = NoErr THEN NoErr ELSE "CastError", value.calls)

\* ------------------------------------------------------------------
\* Track metadata
\* ------------------------------------------------------------------

\* Player.GetMetadata
GetMetadata(i, reply) ==
    getPlayerPropertyCast(i, "Metadata", "ToMetadataE", MapV(EmptyMetadata), reply)

\* The lookup with the test for a null value left out.
MetadataGet_NoNilTest(m, key) ==
    LET v == m.v[key]
    IN  IF v = Absent THEN [val |-> Nil, err |-> "MissingKeyError"]
        ELSE [val |-> v, err |-> NoErr]

\* The lookup that tests for a null value and not for absence.
MetadataGet_NilOnly(m, key) ==
    LET v == m.v[key]
    IN  IF v = Nil THEN [val |-> Nil, err |-> "MissingKeyError"]
        ELSE [val |-> v, err |-> NoErr]

\* Metadata.Get
MetadataGet(m, key) ==
    LET v == m.v[key]
    IN  IF v = Absent \/ v = Nil THEN [val |-> Nil, err |-> "MissingKeyError"]
        ELSE [val |-> v, err |-> NoErr]

\* The cast applied to whatever the lookup returned, its error left unread.
getMetadataCast_IgnoreMissing(i, key, caster, zero, reply) ==
    LET m == GetMetadata(i, reply)
    IN  IF m.err # NoErr THEN Result(zero, m.err, m.calls)
        ELSE LET val == MetadataGet(m.val, key)
                 v == Caster(caster, val.val)
             IN  IF v.err # NoErr THEN Result(v.val, "CastError", m.calls)
                 ELSE Result(v.val, NoErr, m.calls)

\* getMetadataCast; zero is the zero value of the target type T.
getMetadataCast(i, key, caster, zero, reply) ==
    LET m == GetMetadata(i, reply)
    IN  IF m.err # NoErr THEN Result(zero, m.err, m.calls)
        ELSE LET val == MetadataGet(m.val, key)
             IN  IF val.err # NoErr THEN Result(zero, val.err, m.calls)
                 ELSE LET v == Caster(caster, val.val)
                      IN  IF v.err # NoErr THEN Result(v.val, "CastError", m.calls)
                          ELSE Result(v.val, NoErr, m.calls)

\* Player.GetTrackID
GetTrackID(i, reply) ==
    [getMetadataCast(i, "mpris:trackid", "ToStringE", StringV(""), reply)
        EXCEPT !.val = ObjectPathV(@.v)]

\* Player.GetLength
GetLength(i, reply) ==
    [getMetadataCast(i, "mpris:length", "ToInt64E", Int64V(0), reply)
        EXCEPT !.val = DurationV(DurationOfMicro(@.v))]

\* Player.GetTitle
GetTitle(i, reply) == getMetadataCast(i, "xesam:title", "ToStringE", StringV(""), reply)

\* Player.GetArtist
GetArtist(i, reply) ==
    getMetadataCast(i, "xesam:artist", "ToStringSliceE", StringsV(<<>>), reply)

\* Player.GetAlbum
GetAlbum(i, reply) == getMetadataCast(i, "xesam:album", "ToStringE", StringV(""), reply)

\* Player.GetURL
GetURL(i, reply) == getMetadataCast(i, "xesam:url", "ToStringE", StringV(""), reply)

\* Player.GetCoverURL
GetCoverURL(i, reply) == getMetadataCast(i, "mpris:artUrl", "ToStringE", StringV(""), reply)

\* ------------------------------------------------------------------
\* Control methods
\* ------------------------------------------------------------------

\* Player.Next (Next names the next-state relation of the model)
PlayerNext(i, reply) ==
    Result(Nil, CallErr(reply), <<Call(i.obj, PlayerInterface \o ".Next", <<>>)>>)

\* Player.Previous
Previous(i, reply) ==
    Result(Nil, CallErr(reply), <<Call(i.obj, PlayerInterface \o ".Previous", <<>>)>>)

\* Pause calling the PlayPause member.
Pause_PlayPause(i, reply) ==
    Result(Nil, CallErr(reply), <<Call(i.obj, PlayerInterface \o ".PlayPause", <<>>)>>)

\* Player.Pause
Pause(i, reply) ==
    Result(Nil, CallErr(reply), <<Call(i.obj, PlayerInterface \o ".Pause", <<>>)>>)

\* Player.PlayPause
PlayPause(i, reply) ==
    Result(Nil, CallErr(reply), <<Call(i.obj, PlayerInterface \o ".PlayPause", <<>>)>>)

\* Player.Stop
Stop(i, reply) ==
    Result(Nil, CallErr(reply), <<Call(i.obj, PlayerInterface \o ".Stop", <<>>)>>)

\* Player.Play
Play(i, reply) ==
    Result(Nil, CallErr(reply), <<Call(i.obj, PlayerInterface \o ".Play", <<>>)>>)

\* Player.Raise
Raise(i, reply) ==
    Result(Nil, CallErr(reply), <<Call(i.obj, BaseInterface \o ".Raise", <<>>)>>)

\* Player.Quit
Quit(i, reply) ==
    Result(Nil, CallErr(reply), <<Call(i.obj, BaseInterface \o ".Quit", <<>>)>>)

\* Player.Seek
Seek(i, offset, reply) ==
    LET micro == Microseconds(offset.v)
    IN  Result(Nil, CallErr(reply),
               <<Call(i.obj, PlayerInterface \o ".Seek", <<Int64V(micro)>>)>>)

\* Player.OpenURI
OpenURI(i, uri, reply) ==
    Result(Nil, CallErr(reply), <<Call(i.obj, PlayerInterface \o ".OpenUri", <<uri>>)>>)

\* Player.OpenUri (deprecated)
OpenUri(i, uri, reply) == OpenURI(i, uri, reply)

\* The position-set call addressed to the "no track" object path.
SetTrackPosition_NoTrack(i, trackId, position, reply) ==
    Result(Nil, CallErr(reply),
           <<Call(i.obj, PlayerInterface \o ".SetPosition",
                  <<ObjectPathV("/org/mpris/MediaPlayer2/TrackList/NoTrack"),
                    Int64V(Microseconds(position.v))>>)>>)

\* Player.SetTrackPosition
SetTrackPosition(i, trackId, position, reply) ==
    LET oms == Microseconds(position.v)
    IN  Result(Nil, CallErr(reply),
               <<Call(i.obj, PlayerInterface \o ".SetPosition", <<trackId, Int64V(oms)>>)>>)

\* Player.SetPosition; reply1 answers the metadata lookup, reply2 the
\* position-set call when it is issued.
SetPosition(i, position, reply1, reply2) ==
    LET trackID == GetTrackID(i, reply1)
    IN  IF trackID.err # NoErr THEN Result(Nil, trackID.err, trackID.calls)
        ELSE LET set == SetTrackPosition(i, trackID.val, position, reply2)
             IN  Result(Nil, set.err, trackID.calls \o set.calls)

\* getProperty of the earliest variant of the package: the error of Store is
\* returned as it is.
getProperty_part_002(obj, iface, prop, reply) ==
    LET issued == <<Call(obj, getPropertyMethod, <<StringV(iface), StringV(prop)>>)>>
    IN  IF reply.k = "fail" THEN Result(Nil, "TransportError", issued)
        ELSE IF reply.k = "bad" THEN Result(Nil, "DecodeError", issued)
        ELSE Result(reply.v, NoErr, issued)

\* Player.GetMetadata of the earliest variant; the unchecked type assertion
\* panics on a value that is no mapping.
GetMetadata_part_002(i, reply) ==
    LET variant == getProperty_part_002(i.obj, PlayerInterface, "Metadata", reply)
    IN  IF variant.err # NoErr THEN Result(Nil, variant.err, variant.calls)
        ELSE IF variant.val = Nil THEN Result(Nil, "NilValueError", variant.calls)
        ELSE IF variant.val.t # "map" THEN Result(Nil, "panic", variant.calls)
        ELSE Result(variant.val, NoErr, variant.calls)

\* Player.SetPosition of the earliest variant: the error of SetTrackPosition
\* is dropped; the unchecked type assertion panics on a track id that is no
\* object path. Indexing a map with a key it lacks yields a null variant.
SetPosition_part_002(i, position, reply1, reply2) ==
    LET metadata == GetMetadata_part_002(i, reply1)
    IN  IF metadata.err # NoErr THEN Result(Nil, metadata.err, metadata.calls)
        ELSE IF metadata.val.v["mpris:trackid"] \in {Absent, Nil}
        THEN Result(Nil, "NilValueError", metadata.calls)
        ELSE IF metadata.val.v["mpris:trackid"].t # "ObjectPath"
        THEN Result(Nil, "panic", metadata.calls)
        ELSE Result(Nil, NoErr,
                    metadata.calls \o
                    SetTrackPosition(i, metadata.val.v["mpris:trackid"], position, reply2).calls)

\* ------------------------------------------------------------------
\* Discovery
\* ------------------------------------------------------------------

\* conn.BusObject()
BusObject == [dest |-> "org.freedesktop.DBus", path |-> "/org/freedesktop/DBus"]

RECURSIVE FilterPrefix(_, _)
\* The loop of List: the names with the prefix, in order.
FilterPrefix(names, prefix) ==
    IF names = <<>> THEN <<>>
    ELSE IF HasPrefix(Head(names), prefix)
         THEN <<Head(names)>> \o FilterPrefix(Tail(names), prefix)
         ELSE FilterPrefix(Tail(names), prefix)

\* List; reply.v holds the list of names the bus reports when the call succeeds.
List(conn, reply) ==
    LET issued == <<Call(BusObject, ListNamesMethod, <<>>)>>
    IN  IF reply.k = "fail" THEN Result(StringsV(<<>>), "TransportError", issued)
        ELSE IF reply.k = "bad" THEN Result(StringsV(<<>>), "DecodeError", issued)
        ELSE Result(StringsV(FilterPrefix(reply.v.v, BaseInterface)), NoErr, issued)

\* ------------------------------------------------------------------
\* State
\* ------------------------------------------------------------------

VARIABLES
    player,     \* the Player built by New: conn, obj (bus name and object path), name
    props,      \* the remote player's writable properties, by <<interface, property>>
    written,    \* per writable property: the value of the client's last accepted set,
                \* Absent once anything else has written the property
    last,       \* the operation that returned last: op, args, replies, val, err
    calls,      \* the remote calls that operation issued, in order
    matches,    \* the match rules registered on the bus connection
    signalChans,\* the channels registered on the connection for signal delivery
    sigChan,    \* the buffered channel made by OnSeeked: the queued signal events
    sigClosed,  \* whether that channel has been closed
    ctxDone,    \* whether the context given to OnSeeked is done
    pc,         \* where OnSeeked is: "idle", "select", "send", "returned" or "panic"
    seekedErr,  \* the error OnSeeked returned
    cur,        \* the signal event OnSeeked received last
    pending,    \* the duration OnSeeked is sending on the position channel
    out,        \* the duration delivered on the position channel for cur
    emitted,    \* how many signal events the bus has delivered to the connection
    panicked,   \* whether the connection sent on a closed channel
    connClosed, \* whether the bus connection has been closed
    received,   \* the signal events OnSeeked took from its channel, in order
    delivered,  \* the durations received from the position channel, in order
    remoteTrack,\* the track the remote player is playing now
    lookup,     \* the result of SetPosition's metadata lookup while SetPosition
                \* is between its two remote calls, NoLookup otherwise
    positionSets\* the Player.SetPosition calls the remote player received, each
                \* with the track it was playing at that moment

raceVars == <<remoteTrack, lookup, positionSets>>

callVars == <<player, props, written, last, calls, remoteTrack, lookup, positionSets>>

signalVars == <<matches, signalChans, sigChan, sigClosed, ctxDone, pc, seekedErr,
                cur, pending, out, emitted, panicked, connClosed, received, delivered>>

vars == <<player, props, written, last, calls, matches, signalChans, sigChan,
          sigClosed, ctxDone, pc, seekedErr, cur, pending, out, emitted, panicked,
          connClosed, received, delivered, remoteTrack, lookup, positionSets>>

\* ------------------------------------------------------------------
\* The remote player and the inputs of the operations
\* ------------------------------------------------------------------

PlayerNames == {VlcName, MpvName}

VolumeKey == <<PlayerInterface, "Volume">>

LoopStatusKey == <<PlayerInterface, "LoopStatus">>

FullscreenKey == <<BaseInterface, "Fullscreen">>

\* The properties the remote player accepts as writable.
WritableKeys == {VolumeKey, LoopStatusKey, FullscreenKey}

\* What the player, or another client, may write into a writable property.
StoreValues(key) ==
    IF key = VolumeKey THEN {Float64V(1), Float64V(2)}
    ELSE IF key = LoopStatusKey
         THEN {StringV(LoopNone), StringV(LoopTrack), StringV(LoopPlaylist), StringV("Custom")}
         ELSE {BoolV(FALSE), BoolV(TRUE)}

\* What the callers of the typed setters pass.
LoopStatuses == {StringV(LoopNone), StringV(LoopTrack), StringV(LoopPlaylist)}

Volumes == {Float64V(1), Float64V(2)}

Positions == {DurationV(0 - 1500), DurationV(2500)}

RateKey == <<PlayerInterface, "Rate">>

ShuffleKey == <<PlayerInterface, "Shuffle">>

Rates == {Float64V(2), Float64V(3)}

\* The offsets the callers of Seek pass, in nanoseconds.
Offsets ==
    {DurationV(ns) : ns \in {0 - 1500, 0 - 999, 0, 999, 2500, MinInt64, MaxInt64}}

\* The URIs the callers of OpenUri and OpenURI pass.
Uris == {StringV("file:///a.mp3"), StringV("")}

\* A metadata mapping with the given track id and length entries.
MetadataOf(trackid, length) ==
    [k \in MetaKeys |-> IF k = "mpris:trackid" THEN trackid
                        ELSE IF k = "mpris:length" THEN length ELSE Absent]

\* The metadata of a loaded track: every key holds a value.
LoadedMetadata ==
    [k \in MetaKeys |->
        CASE k = "mpris:trackid" -> ObjectPathV("/track/3")
          [] k = "mpris:length" -> Int64V(5)
          [] k = "xesam:artist" -> StringsV(<<"Artist">>)
          [] OTHER -> StringV(k)]

\* The metadata of a player that lists every key with a null value.
NullMetadata == [k \in MetaKeys |-> Nil]

MetadataPool ==
    {MetadataOf(tid, Absent) :
        tid \in {Absent, Nil, ObjectPathV("/track/1"), StringV("/track/2"), MapV(EmptyMetadata)}}
    \cup {MetadataOf(tid, Int64V(5)) : tid \in {Absent, ObjectPathV("/track/1")}}
    \cup {MetadataOf(ObjectPathV("/track/1"), Int64V(FirstOverflow))}
    \cup {LoadedMetadata, NullMetadata}

\* What the remote player may hold in a property it alone writes.
ReadOnlyValues(key) ==
    IF key = <<PlayerInterface, "Metadata">>
    THEN {MapV(m) : m \in MetadataPool} \cup {Nil, StringV("none")}
    ELSE {Nil, StringV(PlaybackPlaying), StringV(PlaybackPaused), StringV(PlaybackStopped),
          StringV("Buffering"), Int64V(5), Int64V(0 - 3), Int64V(FirstOverflow),
          MapV(EmptyMetadata)}

\* The property a Properties.Get or Properties.Set call names.
KeyOf(call) == <<call.args[1].v, call.args[2].v>>

\* The replies the remote side may give to a Properties.Get call.
GetReplies(call) ==
    {Fail, Undecodable} \cup
    {Ok(v) : v \in IF KeyOf(call) \in WritableKeys THEN {props[KeyOf(call)]}
                   ELSE ReadOnlyValues(KeyOf(call))}

\* Every reply some Properties.Get call may receive.
PossibleGetReplies ==
    {Fail, Undecodable} \cup
    {Ok(v) : v \in UNION {StoreValues(key) : key \in WritableKeys}
                   \cup ReadOnlyValues(<<PlayerInterface, "Metadata">>)
                   \cup ReadOnlyValues(<<PlayerInterface, "PlaybackStatus">>)}

\* The replies to a call whose body the client does not read.
CallReplies == {Fail, Ok(Nil)}

\* The remote player after it accepted a Properties.Set call.
RemoteSet(store, call) ==
    IF KeyOf(call) \in WritableKeys THEN [store EXCEPT ![KeyOf(call)] = call.args[3]]
    ELSE store

NameLists == UNION {[1..n -> {VlcName, MpvName, OtherName, ShortName}] : n \in 0..MaxNames}

\* ------------------------------------------------------------------
\* Initial state
\* ------------------------------------------------------------------

NoEvent == [iface |-> "", member |-> "", sender |-> "", body |-> <<>>]

NoDuration == [t |-> "none", v |-> 0]

InitCalls ==
    /\ player \in {New("conn", n) : n \in PlayerNames}
    /\ props = [k \in WritableKeys |->
                    IF k = VolumeKey THEN Float64V(2)
                    ELSE IF k = LoopStatusKey THEN StringV(LoopNone) ELSE BoolV(FALSE)]
    /\ written = [k \in WritableKeys |-> Absent]
    /\ last = [op |-> "New", args |-> <<>>, replies |-> <<>>, val |-> Nil, err |-> NoErr]
    /\ calls = <<>>

InitSignals ==
    /\ matches = {}
    /\ signalChans = {}
    /\ sigChan = <<>>
    /\ sigClosed = FALSE
    /\ ctxDone = FALSE
    /\ pc = "idle"
    /\ seekedErr = NoErr
    /\ cur = NoEvent
    /\ pending = NoDuration
    /\ out = NoDuration
    /\ emitted = 0
    /\ panicked = FALSE
    /\ connClosed = FALSE
    /\ received = <<>>
    /\ delivered = <<>>

\* SetPosition is not between its two remote calls.
NoLookup == [position |-> NoDuration, trackID |-> Result(Nil, NoErr, <<>>)]

\* The tracks of the remote player's playlist; Absent: no track is loaded.
Tracks == {Absent, ObjectPathV("/track/1"), ObjectPathV("/track/3")}

InitRace ==
    /\ remoteTrack = ObjectPathV("/track/1")
    /\ lookup = NoLookup
    /\ positionSets = <<>>

Init == InitCalls /\ InitSignals /\ InitRace

\* ------------------------------------------------------------------
\* The synchronous operations, each one atomic call of the caller
\* ------------------------------------------------------------------

\* The operation returns: its result and the calls it issued are recorded.
Return(op, args, replies, res) ==
    /\ last' = [op |-> op, args |-> args, replies |-> replies,
                val |-> res.val, err |-> res.err]
    /\ calls' = res.calls

\* A typed getter runs against the remote player; results holds what the
\* getter returns for each reply, and the remote side gives one of the
\* replies it has for the property the getter asks for.
DoGet(op, results) ==
    /\ \E reply \in DOMAIN results :
           /\ reply \in GetReplies(results[reply].calls[1])
           /\ Return(op, <<>>, <<reply>>, results[reply])
    /\ UNCHANGED <<player, props, written>>
    /\ UNCHANGED signalVars
    /\ UNCHANGED raceVars

\* A typed setter runs against the remote player, which accepts or refuses.
DoSet(op, key, results) ==
    /\ \E <<value, reply>> \in DOMAIN results :
           /\ Return(op, <<value>>, <<reply>>, results[value, reply])
           /\ IF reply.k = "ok"
              THEN /\ props' = RemoteSet(props, results[value, reply].calls[1])
                   /\ written' = IF key \in WritableKeys
                                 THEN [written EXCEPT ![key] = value]
                                 ELSE written
              ELSE UNCHANGED <<props, written>>
    /\ UNCHANGED player
    /\ UNCHANGED signalVars
    /\ UNCHANGED raceVars

DoGetPlaybackStatus ==
    DoGet("GetPlaybackStatus", [reply \in PossibleGetReplies |-> GetPlaybackStatus(player, reply)])

DoGetLoopStatus ==
    DoGet("GetLoopStatus", [reply \in PossibleGetReplies |-> GetLoopStatus(player, reply)])

DoSetLoopStatus ==
    DoSet("SetLoopStatus", LoopStatusKey,
          [value \in LoopStatuses, reply \in CallReplies |-> SetLoopStatus(player, value, reply)])

DoGetPosition ==
    DoGet("GetPosition", [reply \in PossibleGetReplies |-> GetPosition(player, reply)])

DoGetVolume ==
    DoGet("GetVolume", [reply \in PossibleGetReplies |-> GetVolume(player, reply)])

DoSetVolume ==
    DoSet("SetVolume", VolumeKey,
          [value \in Volumes, reply \in CallReplies |-> SetVolume(player, value, reply)])

DoGetFullscreen ==
    DoGet("GetFullscreen", [reply \in PossibleGetReplies |-> GetFullscreen(player, reply)])

DoSetFullscreen ==
    DoSet("SetFullscreen", FullscreenKey,
          [value \in {BoolV(FALSE), BoolV(TRUE)}, reply \in CallReplies |->
              SetFullscreen(player, value, reply)])

DoGetIdentity ==
    DoGet("GetIdentity", [reply \in PossibleGetReplies |-> GetIdentity(player, reply)])

DoGetIdentity_part_001 ==
    DoGet("GetIdentity_part_001", [reply \in PossibleGetReplies |-> GetIdentity_part_001(player, reply)])

DoSetRate ==
    DoSet("SetRate", RateKey,
          [value \in Rates, reply \in CallReplies |-> SetRate(player, value, reply)])

DoSetShuffle ==
    DoSet("SetShuffle", ShuffleKey,
          [value \in {BoolV(FALSE), BoolV(TRUE)}, reply \in CallReplies |->
              SetShuffle(player, value, reply)])

\* Player.SetProperty called directly, with the interface and property the
\* caller names.
DoSetProperty ==
    /\ \E key \in {VolumeKey, RateKey}, reply \in CallReplies :
           /\ Return("SetProperty", <<StringV(key[1]), StringV(key[2]), Float64V(1)>>,
                     <<reply>>, SetProperty(player, key[1], key[2], Float64V(1), reply))
           /\ IF reply.k = "ok"
              THEN /\ props' = RemoteSet(props,
                                   SetProperty(player, key[1], key[2], Float64V(1), reply).calls[1])
                   /\ written' = IF key \in WritableKeys
                                 THEN [written EXCEPT ![key] = Float64V(1)]
                                 ELSE written
              ELSE UNCHANGED <<props, written>>
    /\ UNCHANGED player
    /\ UNCHANGED signalVars
    /\ UNCHANGED raceVars

\* reply2 answers the position-set call; it is consumed only when that call
\* is issued.
DoSetPosition ==
    /\ \E position \in Positions, reply2 \in CallReplies :
       \E reply1 \in PossibleGetReplies :
       \E res \in {SetPosition(player, position, reply1, reply2)} :
           /\ reply1 \in GetReplies(res.calls[1])
           /\ Len(res.calls) = 1 => reply2 = Fail
           /\ Return("SetPosition", <<position>>,
                     IF Len(res.calls) = 1 THEN <<reply1>> ELSE <<reply1, reply2>>, res)
    /\ UNCHANGED <<player, props, written>>
    /\ UNCHANGED signalVars
    /\ UNCHANGED raceVars

DoList ==
    /\ \E reply \in {Fail, Undecodable} \cup {Ok(StringsV(names)) : names \in NameLists} :
           Return("List", <<>>, <<reply>>, List(player.conn, reply))
    /\ UNCHANGED <<player, props, written>>
    /\ UNCHANGED signalVars
    /\ UNCHANGED raceVars

\* The player itself, or another client, writes a writable property.
RemoteWrite ==
    /\ \E key \in WritableKeys : \E v \in StoreValues(key) \ {props[key]} :
           /\ props' = [props EXCEPT ![key] = v]
           /\ written' = [written EXCEPT ![key] = Absent]
    /\ UNCHANGED <<player, last, calls>>
    /\ UNCHANGED signalVars
    /\ UNCHANGED raceVars

\* A control method without arguments runs against the remote player.
DoMethod(op, results) ==
    /\ \E reply \in DOMAIN results :
           Return(op, <<>>, <<reply>>, results[reply])
    /\ UNCHANGED <<player, props, written>>
    /\ UNCHANGED signalVars
    /\ UNCHANGED raceVars

DoNext == DoMethod("Next", [reply \in CallReplies |-> PlayerNext(player, reply)])

DoPrevious == DoMethod("Previous", [reply \in CallReplies |-> Previous(player, reply)])

DoPause == DoMethod("Pause", [reply \in CallReplies |-> Pause(player, reply)])

DoPlayPause == DoMethod("PlayPause", [reply \in CallReplies |-> PlayPause(player, reply)])

DoStop == DoMethod("Stop", [reply \in CallReplies |-> Stop(player, reply)])

DoPlay == DoMethod("Play", [reply \in CallReplies |-> Play(player, reply)])

DoRaise == DoMethod("Raise", [reply \in CallReplies |-> Raise(player, reply)])

DoQuit == DoMethod("Quit", [reply \in CallReplies |-> Quit(player, reply)])

DoSeek ==
    /\ \E offset \in Offsets, reply \in CallReplies :
           Return("Seek", <<offset>>, <<reply>>, Seek(player, offset, reply))
    /\ UNCHANGED <<player, props, written>>
    /\ UNCHANGED signalVars
    /\ UNCHANGED raceVars

DoOpenUri ==
    /\ \E uri \in Uris, reply \in CallReplies :
           Return("OpenUri", <<uri>>, <<reply>>, OpenUri(player, uri, reply))
    /\ UNCHANGED <<player, props, written>>
    /\ UNCHANGED signalVars
    /\ UNCHANGED raceVars

DoOpenURI ==
    /\ \E uri \in Uris, reply \in CallReplies :
           Return("OpenURI", <<uri>>, <<reply>>, OpenURI(player, uri, reply))
    /\ UNCHANGED <<player, props, written>>
    /\ UNCHANGED signalVars
    /\ UNCHANGED raceVars

DoGetMetadata ==
    DoGet("GetMetadata", [reply \in PossibleGetReplies |-> GetMetadata(player, reply)])

DoGetLength ==
    DoGet("GetLength", [reply \in PossibleGetReplies |-> GetLength(player, reply)])

DoGetTrackID ==
    DoGet("GetTrackID", [reply \in PossibleGetReplies |-> GetTrackID(player, reply)])

DoGetTitle ==
    DoGet("GetTitle", [reply \in PossibleGetReplies |-> GetTitle(player, reply)])

DoGetArtist ==
    DoGet("GetArtist", [reply \in PossibleGetReplies |-> GetArtist(player, reply)])

DoGetAlbum ==
    DoGet("GetAlbum", [reply \in PossibleGetReplies |-> GetAlbum(player, reply)])

DoGetURL ==
    DoGet("GetURL", [reply \in PossibleGetReplies |-> GetURL(player, reply)])

DoGetCoverURL ==
    DoGet("GetCoverURL", [reply \in PossibleGetReplies |-> GetCoverURL(player, reply)])

\* Metadata.Get on a mapping the caller holds.
DoMetadataGet ==
    /\ \E m \in MetadataPool, key \in MetaKeys :
           Return("Metadata.Get", <<MapV(m), StringV(key)>>, <<>>,
                  Result(MetadataGet(MapV(m), key).val, MetadataGet(MapV(m), key).err, <<>>))
    /\ UNCHANGED <<player, props, written>>
    /\ UNCHANGED signalVars
    /\ UNCHANGED raceVars

DoGetName ==
    /\ Return("GetName", <<>>, <<>>, Result(StringV(GetName(player)), NoErr, <<>>))
    /\ UNCHANGED <<player, props, written>>
    /\ UNCHANGED signalVars
    /\ UNCHANGED raceVars

DoSetPosition_part_002 ==
    /\ \E position \in Positions, reply2 \in CallReplies :
       \E reply1 \in PossibleGetReplies :
       \E res \in {SetPosition_part_002(player, position, reply1, reply2)} :
           /\ reply1 \in GetReplies(res.calls[1])
           /\ Len(res.calls) = 1 => reply2 = Fail
           /\ Return("SetPosition_part_002", <<position>>,
                     IF Len(res.calls) = 1 THEN <<reply1>> ELSE <<reply1, reply2>>, res)
    /\ UNCHANGED <<player, props, written>>
    /\ UNCHANGED signalVars
    /\ UNCHANGED raceVars

\* The property round trip: the setters, the getters of the properties the
\* remote player accepts as writable, and the writes of other clients.
Next ==
    \/ DoGetLoopStatus
    \/ DoSetLoopStatus
    \/ DoGetVolume
    \/ DoSetVolume
    \/ DoGetFullscreen
    \/ DoSetFullscreen
    \/ DoSetRate
    \/ DoSetShuffle
    \/ DoSetProperty
    \/ RemoteWrite

Spec == Init /\ [][Next]_vars

\* The operations that leave the remote player's properties alone: control
\* methods, getters, metadata access, position setting and discovery.
NextMethods ==
    \/ DoNext
    \/ DoPrevious
    \/ DoPause
    \/ DoPlayPause
    \/ DoStop
    \/ DoPlay
    \/ DoRaise
    \/ DoQuit
    \/ DoSeek
    \/ DoOpenUri
    \/ DoOpenURI
    \/ DoGetPlaybackStatus
    \/ DoGetLoopStatus
    \/ DoGetPosition
    \/ DoGetVolume
    \/ DoGetFullscreen
    \/ DoGetIdentity
    \/ DoGetIdentity_part_001
    \/ DoGetMetadata
    \/ DoGetLength
    \/ DoGetTrackID
    \/ DoGetTitle
    \/ DoGetArtist
    \/ DoGetAlbum
    \/ DoGetURL
    \/ DoGetCoverURL
    \/ DoMetadataGet
    \/ DoGetName
    \/ DoSetPosition
    \/ DoSetPosition_part_002
    \/ DoList

MethodSpec == Init /\ [][NextMethods]_vars

\* ------------------------------------------------------------------
\* The Seeked signal loop
\* ------------------------------------------------------------------

\* The match rule OnSeeked adds.
SeekedRule == [iface |-> PlayerInterface, member |-> "Seeked"]

\* The bodies of the signal events the remote side may emit.
Bodies ==
    {<<>>, <<Int64V(5)>>, <<Int64V(0 - 3)>>, <<Int64V(FirstOverflow)>>,
     <<Int64V(5), Int64V(7)>>, <<StringV("abc")>>, <<BoolV(TRUE)>>}

\* The Seeked signals of the player the Player is bound to.
SeekedEvents ==
    {[iface |-> PlayerInterface, member |-> "Seeked", sender |-> GetName(player), body |-> b] :
        b \in Bodies}

\* Seeked signals of the other players on the bus.
ForeignSeekedEvents ==
    {[iface |-> PlayerInterface, member |-> "Seeked", sender |-> n, body |-> <<Int64V(7)>>] :
        n \in PlayerNames \ {GetName(player)}}

\* Signals of another member and of another interface, of the same player.
OtherEvents ==
    {[iface |-> PlayerInterface, member |-> "Other", sender |-> GetName(player),
      body |-> <<Int64V(9)>>],
     [iface |-> "org.mpris.MediaPlayer2.TrackList", member |-> "Seeked",
      sender |-> GetName(player), body |-> <<Int64V(11)>>]}

\* The signals the bus may carry.
SignalEvents == SeekedEvents \cup ForeignSeekedEvents \cup OtherEvents

\* The rule AddMatchSignal() without options adds: it selects every signal.
MatchAllRule == [iface |-> "*", member |-> "*"]

\* Whether a match rule registered on the connection selects the event; the
\* rules of this package name no sender.
Matches(rule, e) ==
    /\ rule.iface \in {"*", e.iface}
    /\ rule.member \in {"*", e.member}

\* OnSeeked up to its loop: it makes the channel, adds the match rule and
\* registers the channel; when the rule cannot be added it returns the error,
\* closing the channel on the way out. A closed connection adds no rule.
OnSeekedStart ==
    /\ pc = "idle"
    /\ \E reply \in CallReplies :
           /\ connClosed => reply.k = "fail"
           /\ IF reply.k = "fail"
              THEN /\ pc' = "returned"
                   /\ seekedErr' = "TransportError"
                   /\ sigClosed' = TRUE
                   /\ UNCHANGED <<matches, signalChans>>
              ELSE /\ matches' = matches \cup {SeekedRule}
                   /\ signalChans' = signalChans \cup {"sigChan"}
                   /\ pc' = "select"
                   /\ UNCHANGED <<seekedErr, sigClosed>>
    /\ UNCHANGED <<sigChan, ctxDone, cur, pending, out, emitted, panicked, connClosed,
                   received, delivered>>
    /\ UNCHANGED callVars

\* Player.OnSignal: adds the rule that selects every signal and, when that
\* succeeded, registers the caller's channel.
OnSignal ==
    /\ "ch" \notin signalChans
    /\ ~connClosed
    /\ \E reply \in CallReplies :
           IF reply.k = "fail"
           THEN UNCHANGED <<matches, signalChans>>
           ELSE /\ matches' = matches \cup {MatchAllRule}
                /\ signalChans' = signalChans \cup {"ch"}
    /\ UNCHANGED <<sigChan, sigClosed, ctxDone, pc, seekedErr, cur, pending, out, emitted,
                   panicked, connClosed, received, delivered>>
    /\ UNCHANGED callVars

\* The bus delivers a signal event a match rule selects; the connection
\* hands it to every registered channel, and panics on a closed one.
EmitSignal ==
    /\ emitted < MaxSignals
    /\ ~panicked
    /\ ~connClosed
    /\ \E e \in SignalEvents :
           /\ \E rule \in matches : Matches(rule, e)
           /\ IF "sigChan" \in signalChans
              THEN IF sigClosed
                   THEN panicked' = TRUE /\ UNCHANGED sigChan
                   ELSE /\ Len(sigChan) < SigChanCap
                        /\ sigChan' = Append(sigChan, e)
                        /\ UNCHANGED panicked
              ELSE UNCHANGED <<sigChan, panicked>>
    /\ emitted' = emitted + 1
    /\ UNCHANGED <<matches, signalChans, sigClosed, ctxDone, pc, seekedErr, cur,
                   pending, out, connClosed, received, delivered>>
    /\ UNCHANGED callVars

\* The caller cancels the context.
Cancel ==
    /\ ~ctxDone
    /\ ctxDone' = TRUE
    /\ UNCHANGED <<matches, signalChans, sigChan, sigClosed, pc, seekedErr, cur,
                   pending, out, emitted, panicked, connClosed, received, delivered>>
    /\ UNCHANGED callVars

\* The bus connection is closed: it closes every channel registered for
\* signals and forgets them.
ConnClose ==
    /\ ~connClosed
    /\ ~panicked
    /\ connClosed' = TRUE
    /\ sigClosed' = (sigClosed \/ "sigChan" \in signalChans)
    /\ signalChans' = {}
    /\ panicked' = (sigClosed /\ "sigChan" \in signalChans)
    /\ UNCHANGED <<matches, sigChan, ctxDone, pc, seekedErr, cur, pending, out, emitted,
                   received, delivered>>
    /\ UNCHANGED callVars

\* select takes the ctx.Done() case: OnSeeked returns nil, and the deferred
\* close closes the channel; closing a channel that is closed already panics.
OnSeekedCancelled ==
    /\ pc = "select"
    /\ ctxDone
    /\ pc' = IF sigClosed THEN "panic" ELSE "returned"
    /\ seekedErr' = NoErr
    /\ sigClosed' = TRUE
    /\ UNCHANGED <<matches, signalChans, sigChan, ctxDone, cur, pending, out, emitted,
                   panicked, connClosed, received, delivered>>
    /\ UNCHANGED callVars

\* select takes the sigChan case on a closed and drained channel: ok is
\* false and OnSeeked returns nil; the deferred close then closes the channel
\* a second time, which panics.
OnSeekedClosed ==
    /\ pc = "select"
    /\ sigChan = <<>>
    /\ sigClosed
    /\ pc' = "panic"
    /\ seekedErr' = NoErr
    /\ UNCHANGED <<matches, signalChans, sigChan, sigClosed, ctxDone, cur, pending, out,
                   emitted, panicked, connClosed, received, delivered>>
    /\ UNCHANGED callVars

\* The duration OnSeeked sends for a body, or NoDuration when it skips the event.
Decode(body) ==
    IF Len(body) # 1 THEN NoDuration
    ELSE LET val == ToInt64E(body[1])
         IN  IF val.err = NoErr THEN DurationV(DurationOfMicro(val.val.v))
             ELSE NoDuration

\* select takes the sigChan case: the event is skipped, or decoded and then
\* sent on the position channel.
OnSeekedReceive ==
    /\ pc = "select"
    /\ sigChan # <<>>
    /\ cur' = Head(sigChan)
    /\ received' = Append(received, Head(sigChan))
    /\ sigChan' = Tail(sigChan)
    /\ out' = NoDuration
    /\ pending' = Decode(Head(sigChan).body)
    /\ pc' = IF Decode(Head(sigChan).body) = NoDuration THEN "select" ELSE "send"
    /\ UNCHANGED <<matches, signalChans, sigClosed, ctxDone, seekedErr, emitted, panicked,
                   connClosed, delivered>>
    /\ UNCHANGED callVars

\* The send on the position channel completes: the caller's side receives.
PositionReceived ==
    /\ pc = "send"
    /\ out' = pending
    /\ delivered' = Append(delivered, pending)
    /\ pending' = NoDuration
    /\ pc' = "select"
    /\ UNCHANGED <<matches, signalChans, sigChan, sigClosed, ctxDone, seekedErr, cur,
                   emitted, panicked, connClosed, received>>
    /\ UNCHANGED callVars

NextSignals ==
    \/ OnSeekedStart
    \/ OnSignal
    \/ EmitSignal
    \/ Cancel
    \/ ConnClose
    \/ OnSeekedCancelled
    \/ OnSeekedClosed
    \/ OnSeekedReceive
    \/ PositionReceived

SignalSpec == Init /\ [][NextSignals]_vars

\* The goroutine running OnSeeked keeps taking its own steps; nothing makes
\* the caller receive from the position channel.
SignalLive ==
    /\ Init
    /\ [][NextSignals]_vars
    /\ WF_vars(OnSeekedStart)
    /\ WF_vars(OnSeekedCancelled)
    /\ WF_vars(OnSeekedReceive)

\* ------------------------------------------------------------------
\* SetPosition step by step, beside a remote player that changes track
\* ------------------------------------------------------------------

MaxPositionSets == 2

\* The remote player moves to another track, or unloads the track.
TrackChange ==
    /\ \E t \in Tracks \ {remoteTrack} : remoteTrack' = t
    /\ UNCHANGED <<player, props, written, last, calls, lookup, positionSets>>
    /\ UNCHANGED signalVars

\* Player.SetPosition up to the return of GetTrackID: the lookup is answered
\* from the track the remote player is playing; on an error SetPosition
\* returns it.
SetPositionLookup ==
    /\ lookup = NoLookup
    /\ Len(positionSets) < MaxPositionSets
    /\ \E position \in Positions :
       \E reply1 \in {Fail, Ok(MapV(MetadataOf(remoteTrack, Absent)))} :
       \E trackID \in {GetTrackID(player, reply1)} :
           IF trackID.err # NoErr
           THEN /\ Return("SetPosition", <<position>>, <<reply1>>,
                          Result(Nil, trackID.err, trackID.calls))
                /\ UNCHANGED lookup
           ELSE /\ lookup' = [position |-> position, trackID |-> trackID]
                /\ UNCHANGED <<last, calls>>
    /\ UNCHANGED <<player, props, written, remoteTrack, positionSets>>
    /\ UNCHANGED signalVars

\* Player.SetPosition from the call of SetTrackPosition on: the remote player
\* receives the position-set call while playing remoteTrack.
SetPositionSend ==
    /\ lookup # NoLookup
    /\ \E reply2 \in CallReplies :
       \E set \in {SetTrackPosition(player, lookup.trackID.val, lookup.position, reply2)} :
           /\ positionSets' = Append(positionSets,
                                     [call |-> set.calls[1], playing |-> remoteTrack])
           /\ Return("SetPosition", <<lookup.position>>,
                     <<Ok(MapV(MetadataOf(lookup.trackID.val, Absent))), reply2>>,
                     Result(Nil, set.err, lookup.trackID.calls \o set.calls))
    /\ lookup' = NoLookup
    /\ UNCHANGED <<player, props, written, remoteTrack>>
    /\ UNCHANGED signalVars

NextRace ==
    \/ TrackChange
    \/ SetPositionLookup
    \/ SetPositionSend

RaceSpec == Init /\ [][NextRace]_vars

\* ------------------------------------------------------------------
\* Properties
\* ------------------------------------------------------------------

SetPositionMethod == PlayerInterface \o ".SetPosition"

\* The reply of a metadata lookup on a player with no track loaded: a
\* mapping in which 'mpris:trackid' is absent or null.
NoTrackLoaded(reply) ==
    /\ reply.k = "ok"
    /\ reply.v.t = "map"
    /\ reply.v.v["mpris:trackid"] \in {Absent, Nil}

\* C1: SetPosition on a player with no track loaded returns a
\* MissingKeyError and issues no Player.SetPosition remote call.
C1_SetPositionWithoutTrack ==
    (last.op = "SetPosition" /\ NoTrackLoaded(last.replies[1])) =>
        /\ last.err = "MissingKeyError"
        /\ \A k \in 1..Len(calls) : calls[k].method # SetPositionMethod

\* SetPosition has run against a mapping whose track id is null.
C1_Witness ==
    /\ last.op = "SetPosition"
    /\ NoTrackLoaded(last.replies[1])
    /\ last.replies[1].v.v["mpris:trackid"] = Nil
    /\ Len(calls) = 1

\* C2: once the context given to OnSeeked is done, OnSeeked eventually
\* returns, whether it is waiting for an event or sending a position.
C2_ReturnsOnceCancelled ==
    (ctxDone /\ pc \in {"select", "send"}) ~> (pc = "returned")

\* C3: when OnSeeked has returned after cancellation, its match rule and its
\* signal channel are no longer registered on the connection.
C3_SubscriptionReleased ==
    (pc = "returned" /\ seekedErr = NoErr) =>
        /\ SeekedRule \notin matches
        /\ "sigChan" \notin signalChans

\* The event holds exactly one value, an integer.
SingleInteger(e) == Len(e.body) = 1 /\ e.body[1].t = "int64"

\* What OnSeeked puts on the position channel for the event it received last.
Offered == IF pc = "send" THEN pending ELSE out

\* C4: every received event whose body is one integer n is delivered as the
\* duration n microseconds.
C4_EveryIntegerDelivered ==
    SingleInteger(cur) => Offered = DurationV(cur.body[1].v * Microsecond)

\* The event has no value, several values, or one value that is not a number.
Malformed(e) ==
    /\ e # NoEvent
    /\ \/ Len(e.body) # 1
       \/ e.body[1].t \notin {"int64", "float64"}

\* C5: a malformed event causes nothing to be sent on the position channel
\* and no error, and OnSeeked does not return because of it.
C5_MalformedSkipped ==
    Malformed(cur) =>
        /\ Offered = NoDuration
        /\ seekedErr = NoErr
        /\ pc = "returned" => ctxDone

PlaybackStatuses == {StringV(PlaybackPlaying), StringV(PlaybackPaused), StringV(PlaybackStopped)}

MprisNames == {VlcName, MpvName}

\* The positions of the listing that hold such a name.
MprisPositions(names) == {k \in 1..Len(names) : names[k] \in MprisNames}

\* The j-th of those positions, in the order of the listing.
NthMprisPosition(names, j) ==
    CHOOSE k \in MprisPositions(names) :
        Cardinality({m \in MprisPositions(names) : m < k}) = j - 1

\* C8: List returns exactly the listed names that start with the base
\* interface string, each once and in the order of the listing; when the
\* listing call fails it returns the error and no names.
C8_ListFiltersByPrefix ==
    last.op = "List" =>
        IF last.replies[1].k = "ok"
        THEN LET names == last.replies[1].v.v
                 got == last.val.v
             IN  /\ last.err = NoErr
                 /\ Len(got) = Cardinality(MprisPositions(names))
                 /\ \A j \in 1..Len(got) : got[j] = names[NthMprisPosition(names, j)]
        ELSE last.err # NoErr /\ last.val = StringsV(<<>>)

\* List has returned the one player of a listing of a player and another name.
C8_Witness ==
    /\ last.op = "List"
    /\ last.replies[1] = Ok(StringsV(<<VlcName, OtherName>>))
    /\ last.val = StringsV(<<VlcName>>)
    /\ last.err = NoErr

\* The getter of each writable property.
GetterKey ==
    "GetVolume" :> VolumeKey @@ "GetLoopStatus" :> LoopStatusKey @@
    "GetFullscreen" :> FullscreenKey

\* C9: after an accepted set of a writable property to v, with no other
\* write of that property since, a successful get returns v.
C9_SetThenGet ==
    (last.op \in DOMAIN GetterKey /\ last.err = NoErr) =>
        (written[GetterKey[last.op]] # Absent => last.val = written[GetterKey[last.op]])

\* SetVolume(0.5) was accepted and GetVolume has then returned 0.5.
C9_Witness ==
    /\ last.op = "GetVolume"
    /\ last.err = NoErr
    /\ written[VolumeKey] = Float64V(1)
    /\ last.val = Float64V(1)

\* The typed property getters of the model.
TypedGetters ==
    {"GetPlaybackStatus", "GetLoopStatus", "GetVolume", "GetFullscreen",
     "GetIdentity", "GetIdentity_part_001"}

\* C10: every typed property getter, GetIdentity included, returns a
\* NilValueError when the property-get succeeds with a nil value.
C10_NilValueIsError ==
    (last.op \in TypedGetters /\ last.replies[1] = Ok(Nil)) => last.err = "NilValueError"

\* The typed getters built on getPropertyCast, each with the caster it hands
\* over and the zero value of its target type.
CastGetters ==
    "GetPlaybackStatus" :> [caster |-> "ToStringE", zero |-> StringV("")] @@
    "GetLoopStatus" :> [caster |-> "ToStringE", zero |-> StringV("")] @@
    "GetVolume" :> [caster |-> "ToFloat64E", zero |-> Float64V(0)] @@
    "GetFullscreen" :> [caster |-> "ToBoolE", zero |-> BoolV(FALSE)] @@
    "GetIdentity" :> [caster |-> "ToStringE", zero |-> StringV("")] @@
    "GetMetadata" :> [caster |-> "ToMetadataE", zero |-> MapV(EmptyMetadata)]

\* The reply holds a non-nil value the getter's caster rejects.
Uncastable(op, reply) ==
    /\ reply.k = "ok"
    /\ reply.v # Nil
    /\ Caster(CastGetters[op].caster, reply.v).err # NoErr

\* C11 as stated: a getter built on getPropertyCast returns the transport
\* error when the property-get fails, a CastError when the value is non-nil
\* and cannot be cast, and in every other case the cast of the returned value
\* with a nil error.
C11_CastInEveryOtherCase ==
    last.op \in DOMAIN CastGetters =>
        IF last.replies[1].k = "fail" THEN last.err = "TransportError"
        ELSE IF Uncastable(last.op, last.replies[1]) THEN last.err = "CastError"
        ELSE /\ last.err = NoErr
             /\ last.val = Caster(CastGetters[last.op].caster, last.replies[1].v).val

\* C11, amended: a getter built on getPropertyCast returns the transport
\* error when the property-get fails, a DecodeError when the reply cannot be
\* stored, a NilValueError when the value is nil, a CastError when the value
\* is non-nil and cannot be cast, each with the zero value, and otherwise the
\* cast of the returned value with a nil error.
C11_OutcomeByReply ==
    last.op \in DOMAIN CastGetters =>
        IF last.replies[1].k = "fail"
        THEN last.err = "TransportError" /\ last.val = CastGetters[last.op].zero
        ELSE IF last.replies[1].k = "bad"
        THEN last.err = "DecodeError" /\ last.val = CastGetters[last.op].zero
        ELSE IF last.replies[1].v = Nil
        THEN last.err = "NilValueError" /\ last.val = CastGetters[last.op].zero
        ELSE IF Uncastable(last.op, last.replies[1])
        THEN last.err = "CastError" /\ last.val = CastGetters[last.op].zero
        ELSE /\ last.err = NoErr
             /\ last.val = Caster(CastGetters[last.op].caster, last.replies[1].v).val

\* GetPlaybackStatus has returned "5" for the integer 5 the remote player holds.
C11_Witness ==
    /\ last.op = "GetPlaybackStatus"
    /\ last.replies = <<Ok(Int64V(5))>>
    /\ last.err = NoErr
    /\ last.val = StringV("5")

\* The key is absent from the mapping or its value is null.
Missing(m, key) == m[key] = Absent \/ m[key] = Nil

\* C12: Metadata.Get(key) returns a MissingKeyError exactly when the key is
\* absent from the mapping or its value is null; in every other case it
\* returns the value stored under the key with a nil error; it never returns
\* a nil value together with a nil error.
C12_MissingKeyExactly ==
    last.op = "Metadata.Get" =>
        LET m == last.args[1].v
            key == last.args[2].v
        IN  /\ last.err = "MissingKeyError" <=> Missing(m, key)
            /\ ~Missing(m, key) => last.err = NoErr /\ last.val = m[key]
            /\ ~(last.val \in {Nil, Absent} /\ last.err = NoErr)

\* Metadata.Get has been called for a key the mapping does not hold and has
\* returned a MissingKeyError.
C12_Witness ==
    /\ last.op = "Metadata.Get"
    /\ last.args[1].v[last.args[2].v] = Absent
    /\ last.err = "MissingKeyError"

\* The metadata-derived getters, each with the key it reads.
MetadataGetters ==
    "GetLength" :> "mpris:length" @@
    "GetTrackID" :> "mpris:trackid" @@
    "GetTitle" :> "xesam:title" @@
    "GetArtist" :> "xesam:artist" @@
    "GetAlbum" :> "xesam:album" @@
    "GetURL" :> "xesam:url" @@
    "GetCoverURL" :> "mpris:artUrl"

\* The Metadata property came back as a mapping in which the key the getter
\* reads is absent or null.
IdleFor(op, reply) ==
    /\ reply.k = "ok"
    /\ reply.v.t = "map"
    /\ Missing(reply.v.v, MetadataGetters[op])

\* C13: on an idle player, where the Metadata property is a mapping in which
\* the requested key is absent or null, each metadata-derived getter returns
\* a MissingKeyError and never a zero value with a nil error.
C13_IdlePlayerMissingKey ==
    (last.op \in DOMAIN MetadataGetters /\ IdleFor(last.op, last.replies[1])) =>
        last.err = "MissingKeyError"

\* GetTitle has returned a MissingKeyError for a player whose metadata lists
\* every key with a null value.
C13_Witness ==
    /\ last.op = "GetTitle"
    /\ last.replies = <<Ok(MapV(NullMetadata))>>
    /\ last.err = "MissingKeyError"

\* Seek has issued exactly one Player.Seek call with one integer argument.
SeekIssuedOneCall ==
    /\ Len(calls) = 1
    /\ calls[1].method = PlayerInterface \o ".Seek"
    /\ Len(calls[1].args) = 1
    /\ calls[1].args[1].t = "int64"

\* micro is ns divided by 1000 and truncated toward zero: the remainder has
\* the sign of ns and is smaller than one microsecond.
TruncatedMicroseconds(ns, micro) ==
    LET rem == ns - micro * 1000
    IN  IF ns >= 0 THEN rem \in 0 .. 999 ELSE rem \in (0 - 999) .. 0

SetPositionOps == {"SetPosition", "SetPosition_part_002"}

\* C15 as stated: every operation other than the OnSeeked signal loop
\* performs at most one remote round trip per invocation.
C15_AtMostOneRoundTrip == Len(calls) <= 1

\* C15, amended: every operation other than the OnSeeked signal loop and
\* SetPosition performs at most one remote round trip per invocation;
\* SetPosition performs at most two, the Properties.Get of Metadata and then,
\* only when that lookup came back, the Player.SetPosition call.
C15_OneRoundTripButSetPosition ==
    /\ Len(calls) = Len(last.replies)
    /\ last.op \notin SetPositionOps => Len(calls) <= 1
    /\ last.op \in SetPositionOps =>
           /\ Len(calls) \in 1 .. 2
           /\ calls[1].method = getPropertyMethod
           /\ Len(calls) = 2 =>
                  /\ last.replies[1].k = "ok"
                  /\ calls[2].method = PlayerInterface \o ".SetPosition"

\* SetPosition has returned after its two round trips.
C15_Witness ==
    /\ last.op = "SetPosition"
    /\ Len(calls) = 2
    /\ last.replies[1].k = "ok"
    /\ last.replies[2].k = "ok"
    /\ last.err = NoErr

\* C16: no error is swallowed outside the signal loop: whenever a remote call
\* issued by an operation other than OnSeeked fails, the operation returns a
\* non-nil error; in particular SetPosition returns the error of its
\* position-set call.
C16_NoErrorSwallowed ==
    \A n \in 1 .. Len(last.replies) :
        last.replies[n].k = "fail" => last.err # NoErr

\* The control methods without arguments, each with its interface.
ControlMethods ==
    [op \in {"Next", "Previous", "Pause", "PlayPause", "Stop", "Play"} |-> PlayerInterface] @@
    [op \in {"Raise", "Quit"} |-> BaseInterface]

\* The operation returned the transport error of its one call, or nil.
ReturnsCallError ==
    /\ Len(last.replies) = 1
    /\ last.err = IF last.replies[1].k = "fail" THEN "TransportError" ELSE NoErr

\* C17: each of Next, Previous, Pause, PlayPause, Stop, Play (on the player
\* interface) and Raise, Quit (on the base interface) issues exactly one
\* remote method call without arguments whose member is the operation's name
\* on that interface, and returns the call's transport error or nil; OpenUri
\* and OpenURI issue the identical Player.OpenUri call with the URI unchanged.
C17_ControlMethodsForwarded ==
    /\ last.op \in DOMAIN ControlMethods =>
           /\ Len(calls) = 1
           /\ calls[1].method = ControlMethods[last.op] \o "." \o last.op
           /\ calls[1].args = <<>>
           /\ ReturnsCallError
    /\ last.op \in {"OpenUri", "OpenURI"} =>
           /\ Len(calls) = 1
           /\ calls[1].method = PlayerInterface \o ".OpenUri"
           /\ calls[1].args = last.args
           /\ ReturnsCallError

\* Pause has issued the Player.Pause call, which failed, and has returned
\* the transport error.
C17_Witness ==
    /\ last.op = "Pause"
    /\ calls = <<Call(player.obj, "org.mpris.MediaPlayer2.Player.Pause", <<>>)>>
    /\ last.replies = <<Fail>>
    /\ last.err = "TransportError"

\* The typed setters, each with the interface and property it sets.
TypedSetters ==
    "SetVolume" :> <<PlayerInterface, "Volume">> @@
    "SetRate" :> <<PlayerInterface, "Rate">> @@
    "SetShuffle" :> <<PlayerInterface, "Shuffle">> @@
    "SetLoopStatus" :> <<PlayerInterface, "LoopStatus">> @@
    "SetFullscreen" :> <<BaseInterface, "Fullscreen">>

\* The (interface, property name, value) the last setter was asked to set.
SetterTriple ==
    IF last.op = "SetProperty" THEN last.args
    ELSE <<StringV(TypedSetters[last.op][1]), StringV(TypedSetters[last.op][2]), last.args[1]>>

\* C18: every property setter (SetProperty and the wrappers SetVolume,
\* SetRate, SetShuffle, SetLoopStatus, SetFullscreen) issues exactly one
\* Properties.Set call carrying (interface, property name, value) and no
\* Properties.Get call, and returns a non-nil error if and only if that Set
\* call failed.
C18_SettersIssueOneSet ==
    last.op \in DOMAIN TypedSetters \cup {"SetProperty"} =>
        /\ Len(calls) = 1
        /\ calls[1].method = "org.freedesktop.DBus.Properties.Set"
        /\ calls[1].args = SetterTriple
        /\ \A n \in 1 .. Len(calls) : calls[n].method # "org.freedesktop.DBus.Properties.Get"
        /\ last.err # NoErr <=> last.replies[1].k = "fail"

\* SetShuffle(true) has issued its Properties.Set call, which failed, and has
\* returned an error.
C18_Witness ==
    /\ last.op = "SetShuffle"
    /\ last.args = <<BoolV(TRUE)>>
    /\ last.replies = <<Fail>>
    /\ Len(calls) = 1
    /\ calls[1].args = <<StringV(PlayerInterface), StringV("Shuffle"), BoolV(TRUE)>>
    /\ last.err # NoErr

\* C19: a Player is immutable once constructed: no operation changes its bus
\* connection, remote object or bus name, so GetName returns the bus name
\* given to New after any sequence of operations, successful or failed.
C19_PlayerImmutable ==
    \A name \in PlayerNames :
        player = New("conn", name) =>
            [](/\ player = New("conn", name)
               /\ last.op = "GetName" => last.val = StringV(name))

\* GetName has returned the bus name of a Player built by New for vlc.
C19_Witness ==
    /\ player = New("conn", VlcName)
    /\ last.op = "GetName"
    /\ last.val = StringV(VlcName)

C21_OnlySeekedDelivered ==
    Offered # NoDuration =>
        /\ cur.iface = PlayerInterface
        /\ cur.member = "Seeked"

\* C22: when registering the Seeked match rule fails, OnSeeked returns that
\* error without registering its channel and without sending anything; in
\* every other case, cancellation or the signal source closing, OnSeeked
\* returns nil.
C22_ErrorOnlyWhenRuleFails ==
    /\ pc = "returned" =>
           IF SeekedRule \in matches THEN seekedErr = NoErr
           ELSE /\ seekedErr # NoErr
                /\ "sigChan" \notin signalChans
                /\ received = <<>>
                /\ delivered = <<>>
    /\ pc # "panic"

\* The reply of a metadata lookup on a player with a track loaded: a mapping
\* whose 'mpris:trackid' is an object path.
TrackLoaded(reply) ==
    /\ reply.k = "ok"
    /\ reply.v.t = "map"
    /\ reply.v.v["mpris:trackid"] \notin {Absent, Nil}
    /\ reply.v.v["mpris:trackid"].t = "ObjectPath"

\* C23: when a track is loaded, SetPosition(position) issues exactly one
\* Player.SetPosition call, after the metadata lookup; its track argument is
\* the 'mpris:trackid' the lookup returned and its position argument is
\* position in whole microseconds.
C23_PositionSetScopedToLookup ==
    (last.op \in SetPositionOps /\ TrackLoaded(last.replies[1])) =>
        /\ Len(calls) = 2
        /\ calls[1].method = getPropertyMethod
        /\ calls[2].method = SetPositionMethod
        /\ calls[2].dest = player.obj.dest
        /\ calls[2].path = player.obj.path
        /\ Len(calls[2].args) = 2
        /\ calls[2].args[1] = last.replies[1].v.v["mpris:trackid"]
        /\ calls[2].args[2].t = "int64"
        /\ TruncatedMicroseconds(last.args[1].v, calls[2].args[2].v)

\* SetPosition has set a position with a fraction of a microsecond on the
\* track the lookup named.
C23_Witness ==
    /\ last.op = "SetPosition"
    /\ TrackLoaded(last.replies[1])
    /\ last.replies[1].v.v["mpris:trackid"] = ObjectPathV("/track/3")
    /\ last.args[1] = DurationV(0 - 1500)
    /\ Len(calls) = 2
    /\ calls[2].args = <<ObjectPathV("/track/3"), Int64V(0 - 1)>>
    /\ last.err = NoErr

\* C24: OnSeeked on a Player bound to bus name N delivers positions only for
\* Seeked signals emitted by N; a Seeked signal emitted by a different player
\* on the same bus connection is never delivered on the output channel.
C24_OnlyOwnPlayerDelivered ==
    (/\ pc = "send"
     /\ cur.iface = PlayerInterface
     /\ cur.member = "Seeked") => cur.sender = GetName(player)

\* C25: once the context passed to OnSeeked is done, OnSeeked sends no
\* further position on the output channel, even when signal events are still
\* buffered in sigChan: no send on the output channel begins after that moment.
C25_NoSendOnceDone ==
    [][(ctxDone /\ pc # "send") => pc' # "send"]_vars

\* C26: the bus connection never sends a signal on a channel OnSeeked has
\* already closed: after OnSeeked returned, no later signal arriving on the
\* connection is dispatched to the closed sigChan.
C26_NoDispatchToClosed ==
    [][emitted' # emitted => ~panicked']_vars

\* C27: in SetPosition, the track id carried by the position-set call equals
\* the remote player's current track id at the moment the player receives
\* that call, also when the remote player changes track between SetPosition's
\* metadata lookup and its position-set call.
C27_PositionSetOnCurrentTrack ==
    \A n \in 1 .. Len(positionSets) :
        positionSets[n].call.args[1] = positionSets[n].playing

\* The duration a signal event carries: n microseconds when its body is one
\* value that converts to the integer n, NoDuration otherwise.
Carried(e) ==
    IF Len(e.body) # 1 \/ ToInt64E(e.body[1]).err # NoErr THEN NoDuration
    ELSE DurationV(ToInt64E(e.body[1]).val.v * Microsecond)

IsDuration(d) == d # NoDuration

\* The durations the events of a sequence carry, in the order of the events.
CarriedBy(events) ==
    SelectSeq([n \in 1 .. Len(events) |-> Carried(events[n])], IsDuration)

\* C28: OnSeeked delivers positions on the output channel in the order in
\* which the corresponding signal events were received, each well-formed
\* event at most once, and never a value that no received event carried: what
\* was delivered is a prefix of what the received events carry.
C28_DeliveredInOrderOnce ==
    /\ Len(delivered) <= Len(CarriedBy(received))
    /\ \A n \in 1 .. Len(delivered) : delivered[n] = CarriedBy(received)[n]

\* The duration d represents exactly n microseconds: converted back to whole
\* microseconds it yields n, and it has the sign of n.
ExactlyMicroseconds(d, n) ==
    /\ d.t = "Duration"
    /\ Microseconds(d.v) = n
    /\ (d.v < 0) = (n < 0)

\* The reply carries a mapping whose 'mpris:length' is an integer.
IntegerLength(reply) ==
    /\ reply.k = "ok"
    /\ reply.v.t = "map"
    /\ reply.v.v["mpris:length"] \notin {Absent, Nil}
    /\ reply.v.v["mpris:length"].t = "int64"

\* C29: for every microsecond count n received from the wire (Seeked
\* payload, Position property, 'mpris:length' metadata) the duration produced
\* by OnSeeked, GetPosition and GetLength represents exactly n microseconds:
\* the multiplication by 1000 never wraps, converting back yields n and the
\* sign of n is preserved.
C29_ConversionNeverWraps ==
    /\ (/\ last.op = "GetPosition"
        /\ last.replies[1].k = "ok"
        /\ last.replies[1].v.t = "int64") =>
            ExactlyMicroseconds(last.val, last.replies[1].v.v)
    /\ (last.op = "GetLength" /\ IntegerLength(last.replies[1])) =>
            ExactlyMicroseconds(last.val, last.replies[1].v.v["mpris:length"].v)
    /\ (pc = "send" /\ SingleInteger(cur)) =>
            ExactlyMicroseconds(pending, cur.body[1].v)

====
